---- MODULE Spec2Model ----
(***************************************************************************)
(* A model of the remote contents drive of jupyterlab-remote-contents      *)
(* (src/src/drive.ts) and of the connect handler that reconfigures it      *)
(* (src/src/index.ts).                                                     *)
(*                                                                         *)
(* Every asynchronous method of Drive is split at its await points: the    *)
(* synchronous prefix up to `await ServerConnection.makeRequest(...)`, the *)
(* continuation that checks the status once the response has arrived, and  *)
(* the continuation that runs once `response.json()` (or                   *)
(* `ResponseError.create`) has settled.  Between two of these steps the    *)
(* connect handler may run.                                                *)
(***************************************************************************)
EXTENDS Integers, Sequences, FiniteSets, TLC

(***************************************************************************)
(* Bounds of the model.                                                    *)
(***************************************************************************)
\* number of calls that may be in flight at the same time
MaxInFlight == 2
\* length of the value of the _xsrf cookie
MaxTokenLen == 3
\* length of the file extensions given to newUntitled
MaxExtLen == 3
\* number of calls of dispose() in one behaviour
MaxDisposeCalls == 2
\* total number of calls made in one behaviour
MaxCalls == 3
\* number of properties of a content model a response may get wrong
MaxFaults == 2
\* longest checkpoint list a response carries
MaxListLen == 2

(***************************************************************************)
(* JSON values, as `response.json()` yields them.  A value carries its     *)
(* kind in t; an object carries its own properties as a function, an array *)
(* its items as a sequence.                                                *)
(***************************************************************************)
Str(s) == [t |-> "string", v |-> s]
Num == [t |-> "number", v |-> "0"]
Null == [t |-> "null"]
Bool(b) == [t |-> "boolean", v |-> b]
Obj(props) == [t |-> "object", props |-> props]
Arr(items) == [t |-> "array", items |-> items]
\* a response body that is not JSON at all: response.json() rejects on it
NotJson == [t |-> "notjson"]
\* the absence of a value (a void result, a property that is not there)
Undefined == [t |-> "undefined"]

\* JavaScript's typeof
TypeOf(value) ==
  CASE value.t = "string" -> "string"
    [] value.t = "number" -> "number"
    [] value.t = "undefined" -> "undefined"
    [] OTHER -> "object"

\* Array.isArray
IsArray(value) == value.t = "array"

\* object.hasOwnProperty(name), for the property names the validators ask for
\* (none of them is "length" or an index); null has no such method
HasOwnProperty(object, name) ==
  /\ object.t = "object"
  /\ name \in DOMAIN object.props

\* object[name]
GetProperty(object, name) ==
  IF HasOwnProperty(object, name) THEN object.props[name] ELSE Undefined

(***************************************************************************)
(* Errors.  The text of a message is kept as its kind and the names it     *)
(* mentions.                                                               *)
(***************************************************************************)
Err(kind, prop, typeName, status) ==
  [kind |-> kind, prop |-> prop, typeName |-> typeName, status |-> status]
NoError == Err("none", "", "", 0)
\* Error('Jupyter server URL not set')
UrlNotSetError == Err("Jupyter server URL not set", "", "", 0)
\* Error(`Missing property '${name}'`)
MissingProperty(name) == Err("Missing property", name, "", 0)
\* Error(`Property '${name}' is not of type '${typeName}'`)
NotOfType(name, typeName) == Err("Property is not of type", name, typeName, 0)
\* Error(`Property '${name}' is not one of the valid values ...`)
NotOneOf(name) == Err("Property is not one of the valid values", name, "", 0)
\* Error('Invalid Checkpoint list')
InvalidCheckpointList == Err("Invalid Checkpoint list", "", "", 0)
\* the TypeError of reading a property of null
NullTypeError == Err("TypeError", "", "", 0)
\* the SyntaxError of response.json() on a body that is not JSON
JsonSyntaxError == Err("SyntaxError", "", "", 0)
\* what a slot connected to fileChanged throws
SlotError == Err("SlotError", "", "", 0)

(***************************************************************************)
(* Private.validateProperty: NoError when the check passes, the error it   *)
(* throws otherwise.                                                       *)
(***************************************************************************)
validateProperty(object, name, typeName, values) ==
  IF object.t = "null" THEN NullTypeError
  ELSE IF ~HasOwnProperty(object, name) THEN MissingProperty(name)
  ELSE LET value == GetProperty(object, name)
           valid == CASE typeName = "array" -> IsArray(value)
                      [] typeName = "object" -> TypeOf(value) # "undefined"
                      [] OTHER -> TypeOf(value) = typeName
       IN IF typeName = "undefined" THEN NoError
          ELSE IF ~valid THEN NotOfType(name, typeName)
          ELSE IF values # {} /\ value \notin values THEN NotOneOf(name)
          ELSE NoError

\* a sequence of statements each of which may throw: the first error thrown
RECURSIVE FirstThrown(_)
FirstThrown(results) ==
  IF results = <<>> THEN NoError
  ELSE IF Head(results) # NoError THEN Head(results)
  ELSE FirstThrown(Tail(results))

\* validateContentsModel without its check of `created`
validateContentsModel_NoCreated(model) ==
  FirstThrown(<<
    validateProperty(model, "name", "string", {}),
    validateProperty(model, "path", "string", {}),
    validateProperty(model, "type", "string", {}),
    validateProperty(model, "last_modified", "string", {}),
    validateProperty(model, "mimetype", "object", {}),
    validateProperty(model, "content", "object", {}),
    validateProperty(model, "format", "object", {}) >>)

\* Private.validateContentsModel
validateContentsModel(model) ==
  FirstThrown(<<
    validateProperty(model, "name", "string", {}),
    validateProperty(model, "path", "string", {}),
    validateProperty(model, "type", "string", {}),
    validateProperty(model, "created", "string", {}),
    validateProperty(model, "last_modified", "string", {}),
    validateProperty(model, "mimetype", "object", {}),
    validateProperty(model, "content", "object", {}),
    validateProperty(model, "format", "object", {}) >>)

\* Private.validateCheckpointModel
validateCheckpointModel(model) ==
  FirstThrown(<<
    validateProperty(model, "id", "string", {}),
    validateProperty(model, "last_modified", "string", {}) >>)

\* the loop of listCheckpoints stopping one item short
validateCheckpointList_OneShort(data) ==
  FirstThrown([i \in 1..(Len(data.items) - 1) |-> validateCheckpointModel(data.items[i])])

\* the loop of listCheckpoints over data[0 .. data.length-1]
validateCheckpointList(data) ==
  FirstThrown([i \in 1..Len(data.items) |-> validateCheckpointModel(data.items[i])])

(***************************************************************************)
(* Paths and URLs.  A path is the sequence of its slash-separated          *)
(* segments; a URL is the base URL it was joined from and the sequence of  *)
(* the parts joined to it.                                                 *)
(***************************************************************************)
\* SERVICE_DRIVE_URL, the default of Drive._apiEndpoint
SERVICE_DRIVE_URL == "api/contents"
\* FILES_URL
FILES_URL == "files"

Segments == {"a", "d", "b c"}
Paths == {<<"a">>, <<"d", "b c">>}
CheckpointIDs == {<<"k1">>}

\* encodeURIComponent on the segments of the model
encodeURIComponent(segment) == IF segment = "b c" THEN "b%20c" ELSE segment

\* URLExt.encodeParts: every segment encoded on its own, the slashes kept
encodeParts(path) == [i \in DOMAIN path |-> encodeURIComponent(path[i])]

RECURSIVE Flatten(_)
Flatten(seqs) == IF seqs = <<>> THEN <<>> ELSE Head(seqs) \o Flatten(Tail(seqs))

\* The base URL is a text, the sequence of its characters.
EmptyText == <<>>
Http == <<"h", "t", "t", "p", ":", "/", "/">>
Server1 == Http \o <<"h", "1", "/">>
Server2 == Http \o <<"h", "2", "/">>

\* URLExt.join(baseUrl, apiEndpoint, ...parts)
UrlJoin(baseUrl, apiEndpoint, parts) ==
  [base |-> baseUrl, path |-> <<apiEndpoint>> \o Flatten(parts)]

(***************************************************************************)
(* The state.                                                              *)
(*   serverSettings  Drive.serverSettings (baseUrl and queryParams)        *)
(*   calls           the calls of the drive's methods, by slot: what was   *)
(*                   called, where the call stands, the request it made,   *)
(*                   the response it got, how it settled, and the events   *)
(*                   it emitted on fileChanged                             *)
(*   ncalls          number of calls made so far                           *)
(*   emitCount       number of emissions of Drive._fileChanged so far      *)
(*   okMutations     number of newUntitled, delete, rename, save and copy  *)
(*                   calls resolved so far                                 *)
(*   requestCount    number of HTTP requests made so far                   *)
(*   isDisposed      Drive._isDisposed                                     *)
(*   clearDataCalls  number of calls of Signal.clearData(this) so far      *)
(*   disposeCalls    number of calls of dispose() so far                   *)
(*   entered         the last answer of the user to the prompt for the     *)
(*                   server URL                                            *)
(*   listeners       the connections of slots to Drive.fileChanged, in the *)
(*                   order in which they were made                         *)
(*   atDisposal      what dispose() found when it disposed of the drive:   *)
(*                   the slots whose connections it released and the       *)
(*                   slots of the calls that were in flight                *)
(***************************************************************************)
VARIABLES serverSettings, calls, ncalls, emitCount, okMutations, requestCount,
          isDisposed, clearDataCalls, disposeCalls, entered, listeners,
          atDisposal

vars == <<serverSettings, calls, ncalls, emitCount, okMutations, requestCount,
          isDisposed, clearDataCalls, disposeCalls, entered, listeners,
          atDisposal>>

\* the slots of the calls; a host that awaits each call before it makes the
\* next one uses the first slot alone
Slots == 1..MaxInFlight
FirstSlot == {1}

NoRequest == [method |-> "none"]
NoResponse == [status |-> 0, body |-> Undefined]

Idle ==
  [op |-> "none", args |-> <<>>, pc |-> "idle", request |-> NoRequest, sent |-> 0,
   response |-> NoResponse, result |-> Undefined, error |-> NoError, emitted |-> <<>>,
   delivered |-> <<>>, steps |-> <<>>, disposed |-> FALSE]

MutatingOps == {"newUntitled", "delete", "rename", "save", "copy"}

\* ServerConnection.makeSettings(): nothing is configured until the user connects
NoParams == [k \in {} |-> ""]
makeSettings == [baseUrl |-> EmptyText, queryParams |-> NoParams]

Init ==
  /\ serverSettings = makeSettings
  /\ calls = [c \in Slots |-> Idle]
  /\ ncalls = 0
  /\ emitCount = 0
  /\ okMutations = 0
  /\ requestCount = 0
  /\ isDisposed = FALSE
  /\ clearDataCalls = 0
  /\ disposeCalls = 0
  /\ entered = Undefined
  /\ listeners = <<>>
  /\ atDisposal = [slots |-> {}, inFlight |-> {}]

\* _getUrl without its test of the base URL
getUrl_Unchecked(settings, args) ==
  [error |-> NoError,
   url |-> UrlJoin(settings.baseUrl, SERVICE_DRIVE_URL,
                   [i \in DOMAIN args |-> encodeParts(args[i])])]

\* _getUrl with the base URL of the first server, whatever the settings hold
getUrl_FirstServer(settings, args) ==
  IF settings.baseUrl = EmptyText
    THEN [error |-> UrlNotSetError, url |-> Undefined]
    ELSE [error |-> NoError,
          url |-> UrlJoin(Server1, SERVICE_DRIVE_URL,
                          [i \in DOMAIN args |-> encodeParts(args[i])])]

(***************************************************************************)
(* Drive._getUrl: the error it throws, or the URL it returns.              *)
(***************************************************************************)
getUrl(settings, args) ==
  LET parts == [i \in DOMAIN args |-> encodeParts(args[i])]
      baseUrl == settings.baseUrl
  IN IF baseUrl = EmptyText
       THEN [error |-> UrlNotSetError, url |-> Undefined]
       ELSE [error |-> NoError, url |-> UrlJoin(baseUrl, SERVICE_DRIVE_URL, parts)]

(***************************************************************************)
(* The steps every method is made of.                                      *)
(***************************************************************************)
\* a slot is free for a new call when no call is in flight in it
CanCall(c) ==
  /\ ncalls < MaxCalls
  /\ calls[c].pc \in {"idle", "resolved", "rejected", "thrown"}

At(c, op, pc) == calls[c].op = op /\ calls[c].pc = pc

\* the promise of the call is rejected
Reject(call, error) ==
  [call EXCEPT !.pc = "rejected", !.error = error, !.steps = Append(@, "rejected")]

\* the call throws before it has returned a promise
Throw(call, error) == [call EXCEPT !.pc = "thrown", !.error = error]

\* the promise of the call is resolved, unless an exception has left the
\* method before its return
Resolve(call, value) ==
  IF call.pc = "rejected" THEN call
  ELSE [call EXCEPT !.pc = "resolved", !.result = value,
                    !.steps = Append(@, "result returned")]

\* the slots that may be connected to fileChanged, and those of them that throw
ListenerSlots == {"l1", "l2"}
ThrowingSlots == {"l2"}

\* the receivers up to the first one whose slot throws, that one included
UpToFirstThrow(receivers) ==
  LET throwing == {i \in DOMAIN receivers : receivers[i].slot \in ThrowingSlots}
  IN IF throwing = {} THEN receivers
     ELSE SubSeq(receivers, 1, CHOOSE i \in throwing : \A j \in throwing : i <= j)

\* an emit that lets the exception of a slot through
emit_Unisolated(receivers, args) ==
  [invoked |-> [i \in DOMAIN UpToFirstThrow(receivers) |->
                  [slot |-> receivers[i].slot, args |-> args]],
   thrown |-> \E i \in DOMAIN receivers : receivers[i].slot \in ThrowingSlots]

\* Signal.emit(args): the slots of the connections there are now are invoked
\* in the order of the connections, each on its own, so that the exception of
\* a slot is caught and ends neither the loop nor the emit
emit(receivers, args) ==
  [invoked |-> [i \in DOMAIN receivers |-> [slot |-> receivers[i].slot, args |-> args]],
   thrown |-> FALSE]

\* this._fileChanged.emit(event)
Emit(call, event) ==
  LET emission == emit(listeners, event)
      emitted == [call EXCEPT !.emitted = Append(@, event),
                              !.delivered = @ \o emission.invoked,
                              !.steps = Append(@, "event delivered")]
  IN IF emission.thrown THEN Reject(emitted, SlotError) ELSE emitted

\* ServerConnection.makeRequest(url, init, settings): the request leaves with
\* the query parameters the settings hold, and the call awaits the response
makeRequest(call, url, init, settings) ==
  [call EXCEPT !.pc = "request", !.sent = @ + 1,
               !.steps = Append(@, "request sent"),
               !.request = [method |-> init.method, url |-> url, body |-> init.body,
                            queryParams |-> settings.queryParams, params |-> NoParams]]

\* ServerConnection.makeRequest(url, init, settings, params): the same, with
\* the query parameters of this request
makeRequestWithParams(call, url, init, settings, params) ==
  [makeRequest(call, url, init, settings) EXCEPT !.request.params = params]

\* the response is there (its status line; the body is read later, by
\* response.json()): the status test that every method starts its continuation
\* with; a bad status goes on to await ResponseError.create
CheckStatus(call, status, expected, next) ==
  IF status \notin expected
    THEN [call EXCEPT !.pc = "error", !.response.status = status,
                      !.steps = @ \o <<"response received", "status refused">>]
    ELSE [next EXCEPT !.response.status = status]

\* the status was the expected one: the method goes on
StatusChecked(call) ==
  [call EXCEPT !.steps = @ \o <<"response received", "status checked">>]

\* response.json() has read the body
ReadBody(call, body) ==
  [call EXCEPT !.response.body = body, !.steps = Append(@, "body read")]

AwaitJson(call) == [StatusChecked(call) EXCEPT !.pc = "json"]

\* the validation of the body has passed
Validated(call) == [call EXCEPT !.steps = Append(@, "body validated")]

\* the call in slot c moves on from where it stood (before); the counters
\* follow what it did in this step
Step(c, before, call) ==
  /\ calls' = [calls EXCEPT ![c] = call]
  /\ emitCount' = emitCount + Len(call.emitted) - Len(before.emitted)
  /\ okMutations' = okMutations +
       (IF call.pc = "resolved" /\ before.pc # "resolved" /\ call.op \in MutatingOps
          THEN 1 ELSE 0)
  /\ requestCount' = requestCount + call.sent - before.sent
  /\ UNCHANGED <<serverSettings, isDisposed, clearDataCalls, disposeCalls, entered,
                 listeners, atDisposal>>

\* a method is called: its synchronous part up to the first await
Start(op, args) == [Idle EXCEPT !.op = op, !.args = args, !.disposed = isDisposed]

Called(c, call) ==
  /\ ncalls' = ncalls + 1
  /\ Step(c, Idle, call)

Continued(c, call) ==
  /\ UNCHANGED ncalls
  /\ Step(c, calls[c], call)

(***************************************************************************)
(* The methods of Drive.                                                   *)
(***************************************************************************)
\* String.prototype.toLowerCase, on the characters extensions are made of
toLowerCase(chars) == [i \in DOMAIN chars |-> IF chars[i] = "P" THEN "p" ELSE chars[i]]

\* normalizeExtension as its comment describes it: "Adds a leading dot if not
\* present and converts to lower case"
normalizeExtension_LowerCase(extension) ==
  IF Len(extension) > 0 /\ extension[1] # "."
    THEN <<".">> \o toLowerCase(extension)
    ELSE toLowerCase(extension)

\* Private.normalizeExtension, on an extension given as its characters
normalizeExtension(extension) ==
  IF Len(extension) > 0 /\ extension[1] # "."
    THEN <<".">> \o extension
    ELSE extension

\* the creation options as newUntitled rewrites them before it sends them
\* (`if (options.ext)`: an absent and an empty extension are left alone)
normalizeOptions(options) ==
  IF options.ext.t = "string" /\ Len(options.ext.v) > 0
    THEN [options EXCEPT !.ext = Str(normalizeExtension(options.ext.v))]
    ELSE options

\* options.path ?? ''
PathOrEmpty(options) == IF options.path.t = "undefined" THEN <<>> ELSE options.path.v

\* JavaScript's test of a value in a condition
IsTruthy(value) ==
  CASE value.t = "boolean" -> value.v
    [] value.t \in {"undefined", "null"} -> FALSE
    [] OTHER -> TRUE

\* options.name, undefined when the options have no such property
Option(options, name) ==
  IF name \in DOMAIN options.props THEN options.props[name] ELSE Undefined

\* the parameters of get that keep the format of a notebook
fetchParams_KeepsFormat(options) ==
  IF options = Undefined THEN NoParams
  ELSE [k \in DOMAIN options.props \cup {"content"} |->
          IF k = "content"
            THEN Str(IF IsTruthy(Option(options, "content")) THEN "1" ELSE "0")
            ELSE options.props[k]]

\* the parameters of get that pass the content option on as it is
fetchParams_ContentAsGiven(options) ==
  IF options = Undefined THEN NoParams
  ELSE LET kept == IF Option(options, "type") = Str("notebook")
                     THEN DOMAIN options.props \ {"format"}
                     ELSE DOMAIN options.props
       IN [k \in kept |-> options.props[k]]

\* the query parameters get makes of its options: none without options;
\* otherwise the options, without the format when the type is 'notebook'
\* (`delete options['format']`), and with content as '1' or '0'
fetchParams(options) ==
  IF options = Undefined THEN NoParams
  ELSE LET kept == IF Option(options, "type") = Str("notebook")
                     THEN DOMAIN options.props \ {"format"}
                     ELSE DOMAIN options.props
           content == IF IsTruthy(Option(options, "content")) THEN "1" ELSE "0"
       IN [k \in kept \cup {"content"} |->
             IF k = "content" THEN Str(content) ELSE options.props[k]]

\* Drive.get, up to `await ServerConnection.makeRequest`
get(c, localPath, options) ==
  /\ CanCall(c)
  /\ LET call == Start("get", <<localPath, options>>)
         u == getUrl(serverSettings, <<localPath>>)
         params == fetchParams(options)
     IN Called(c, IF u.error # NoError THEN Reject(call, u.error)
                  ELSE makeRequestWithParams(call, u.url, [method |-> "GET", body |-> Undefined],
                                             serverSettings, params))

\* get that asks again when the status is not 200
get_response_Retries(c, status) ==
  /\ At(c, "get", "request")
  /\ Continued(c, IF status # 200
                    THEN makeRequestWithParams(calls[c], calls[c].request.url,
                                               [method |-> "GET", body |-> Undefined],
                                               serverSettings, calls[c].request.params)
                    ELSE CheckStatus(calls[c], status, {200}, AwaitJson(calls[c])))

\* Drive.get, once the response has arrived
get_response(c, status) ==
  /\ At(c, "get", "request")
  /\ Continued(c, CheckStatus(calls[c], status, {200}, AwaitJson(calls[c])))

\* get that announces the model it has read
get_data_Emits(c, bodies) ==
  /\ At(c, "get", "json")
  /\ \E body \in bodies :
       LET call == ReadBody(calls[c], body)
           data == call.response.body
           invalid == validateContentsModel(data)
       IN Continued(c, IF data = NotJson THEN Reject(call, JsonSyntaxError)
                       ELSE IF invalid # NoError THEN Reject(call, invalid)
                       ELSE Resolve(Emit(Validated(call), [type |-> "new", oldValue |-> Null, newValue |-> data]), data))

\* Drive.get, once `response.json()` has settled
get_data(c, bodies) ==
  /\ At(c, "get", "json")
  /\ \E body \in bodies :
       LET call == ReadBody(calls[c], body)
           data == call.response.body
           invalid == validateContentsModel(data)
       IN Continued(c, IF data = NotJson THEN Reject(call, JsonSyntaxError)
                       ELSE IF invalid # NoError THEN Reject(call, invalid)
                       ELSE Resolve(Validated(call), data))

\* the TypeError of `new URL(url)` on a URL that is not absolute
InvalidUrlError == Err("TypeError: Invalid URL", "", "", 0)
(***************************************************************************)
(* document.cookie: the cookies of the page, each a name and a value; a    *)
(* value is made of word characters ("t") and of others ("=").             *)
(***************************************************************************)
TokenChars == {"t", "="}
IsWordChar(ch) == ch = "t"
Tokens == UNION { [1..n -> TokenChars] : n \in 0..MaxTokenLen }
NoCookies == <<>>
AllCookies ==
  {NoCookies, << <<"sid", <<"t">> >> >>, << <<"sid", <<"t">> >>, <<"_xsrf", <<"t">> >> >>}
    \cup { << <<"_xsrf", token>> >> : token \in Tokens }
Cookies == {NoCookies, << <<"_xsrf", <<"t">> >> >>}

\* `\b` after the first k characters of the value of a cookie: one of the
\* characters before and after is a word character and the other is not; the
\* value follows "=" and is followed by ";" or by the end of the string
BoundaryAfter(value, k) ==
  LET before == IF k = 0 THEN "=" ELSE value[k]
      after == IF k = Len(value) THEN ";" ELSE value[k + 1]
  IN IsWordChar(before) # IsWordChar(after)

\* document.cookie.match('\\b_xsrf=([^;]*)\\b')[1], or null: `[^;]*` takes
\* the longest part of the value that ends at a word boundary
xsrfTokenMatch(cookie) ==
  LET named == {i \in DOMAIN cookie :
                  /\ cookie[i][1] = "_xsrf"
                  /\ \E k \in 0..Len(cookie[i][2]) : BoundaryAfter(cookie[i][2], k)}
  IN IF named = {} THEN Null
     ELSE LET i == CHOOSE j \in named : \A j2 \in named : j <= j2
              value == cookie[i][2]
              k == CHOOSE n \in 0..Len(value) :
                     /\ BoundaryAfter(value, n)
                     /\ \A m \in 0..Len(value) : BoundaryAfter(value, m) => m <= n
          IN Str(SubSeq(value, 1, k))

\* Drive.getDownloadUrl, called with document.cookie as it is: no request is
\* made; when the cookie matches, the URL is parsed, which throws when the
\* base URL is not set, and the token is appended
getDownloadUrl(c, localPath, cookie) ==
  /\ CanCall(c)
  /\ LET call == Start("getDownloadUrl", <<localPath, cookie>>)
         baseUrl == serverSettings.baseUrl
         url == UrlJoin(baseUrl, FILES_URL, <<encodeParts(localPath)>>)
         plain == [t |-> "url", base |-> url.base, path |-> url.path, search |-> <<>>]
         match == xsrfTokenMatch(cookie)
     IN Called(c, IF match = Null THEN Resolve(call, plain)
                  ELSE IF baseUrl = EmptyText THEN Throw(call, InvalidUrlError)
                  ELSE Resolve(call, [plain EXCEPT !.search = << <<"_xsrf", match.v>> >>]))

\* Drive.newUntitled, up to `await ServerConnection.makeRequest`
newUntitled(c, options) ==
  /\ CanCall(c)
  /\ LET call == Start("newUntitled", <<options>>)
         u == getUrl(serverSettings, <<PathOrEmpty(options)>>)
         init == [method |-> "POST", body |-> normalizeOptions(options)]
     IN Called(c, IF u.error # NoError THEN Reject(call, u.error)
                  ELSE makeRequest(call, u.url, init, serverSettings))

\* Drive.newUntitled, once the response has arrived
newUntitled_response(c, status) ==
  /\ At(c, "newUntitled", "request")
  /\ Continued(c, CheckStatus(calls[c], status, {201}, AwaitJson(calls[c])))

\* newUntitled that returns the model before it announces it
newUntitled_data_ReturnsFirst(c, bodies) ==
  /\ At(c, "newUntitled", "json")
  /\ \E body \in bodies :
       LET call == ReadBody(calls[c], body)
           data == call.response.body
           invalid == validateContentsModel(data)
       IN Continued(c, IF data = NotJson THEN Reject(call, JsonSyntaxError)
                       ELSE IF invalid # NoError THEN Reject(call, invalid)
                       ELSE Emit(Resolve(Validated(call), data), [type |-> "new", oldValue |-> Null, newValue |-> data]))

\* Drive.newUntitled, once `response.json()` has settled
newUntitled_data(c, bodies) ==
  /\ At(c, "newUntitled", "json")
  /\ \E body \in bodies :
       LET call == ReadBody(calls[c], body)
           data == call.response.body
           invalid == validateContentsModel(data)
       IN Continued(c, IF data = NotJson THEN Reject(call, JsonSyntaxError)
                       ELSE IF invalid # NoError THEN Reject(call, invalid)
                       ELSE Resolve(Emit(Validated(call), [type |-> "new", oldValue |-> Null, newValue |-> data]), data))

\* Drive.delete, up to `await ServerConnection.makeRequest`
delete(c, localPath) ==
  /\ CanCall(c)
  /\ LET call == Start("delete", <<localPath>>)
         u == getUrl(serverSettings, <<localPath>>)
         init == [method |-> "DELETE", body |-> Undefined]
     IN Called(c, IF u.error # NoError THEN Reject(call, u.error)
                  ELSE makeRequest(call, u.url, init, serverSettings))

\* delete that emits before it tests the status
delete_response_EmitsFirst(c, status) ==
  /\ At(c, "delete", "request")
  /\ LET emitted == Emit(calls[c], [type |-> "delete", oldValue |-> [path |-> calls[c].args[1]], newValue |-> Null])
     IN Continued(c, CheckStatus(emitted, status, {204}, Resolve(emitted, Undefined)))

\* Drive.delete, once the response has arrived
delete_response(c, status) ==
  /\ At(c, "delete", "request")
  /\ Continued(c, CheckStatus(calls[c], status, {204},
                              Resolve(Emit(StatusChecked(calls[c]), [type |-> "delete", oldValue |-> [path |-> calls[c].args[1]], newValue |-> Null]), Undefined)))

\* Drive.rename, up to `await ServerConnection.makeRequest`
rename(c, oldLocalPath, newLocalPath) ==
  /\ CanCall(c)
  /\ LET call == Start("rename", <<oldLocalPath, newLocalPath>>)
         u == getUrl(serverSettings, <<oldLocalPath>>)
         init == [method |-> "PATCH", body |-> [path |-> newLocalPath]]
     IN Called(c, IF u.error # NoError THEN Reject(call, u.error)
                  ELSE makeRequest(call, u.url, init, serverSettings))

\* Drive.rename, once the response has arrived
rename_response(c, status) ==
  /\ At(c, "rename", "request")
  /\ Continued(c, CheckStatus(calls[c], status, {200}, AwaitJson(calls[c])))

\* rename with the emission moved before the validation
rename_data_EmitsFirst(c, bodies) ==
  /\ At(c, "rename", "json")
  /\ \E body \in bodies :
       LET call == ReadBody(calls[c], body)
           data == call.response.body
           invalid == validateContentsModel(data)
           emitted == Emit(call, [type |-> "rename", oldValue |-> [path |-> call.args[1]], newValue |-> data])
       IN Continued(c, IF data = NotJson THEN Reject(call, JsonSyntaxError)
                       ELSE IF invalid # NoError THEN Reject(emitted, invalid)
                       ELSE Resolve(emitted, data))

\* rename that announces the new path as the old one
rename_data_OldValueIsNewPath(c, bodies) ==
  /\ At(c, "rename", "json")
  /\ \E body \in bodies :
       LET call == ReadBody(calls[c], body)
           data == call.response.body
           invalid == validateContentsModel(data)
       IN Continued(c, IF data = NotJson THEN Reject(call, JsonSyntaxError)
                       ELSE IF invalid # NoError THEN Reject(call, invalid)
                       ELSE Resolve(Emit(Validated(call), [type |-> "rename", oldValue |-> [path |-> call.args[2]], newValue |-> data]), data))

\* Drive.rename, once `response.json()` has settled
rename_data(c, bodies) ==
  /\ At(c, "rename", "json")
  /\ \E body \in bodies :
       LET call == ReadBody(calls[c], body)
           data == call.response.body
           invalid == validateContentsModel(data)
       IN Continued(c, IF data = NotJson THEN Reject(call, JsonSyntaxError)
                       ELSE IF invalid # NoError THEN Reject(call, invalid)
                       ELSE Resolve(Emit(Validated(call), [type |-> "rename", oldValue |-> [path |-> call.args[1]], newValue |-> data]), data))

\* Drive.save, up to `await ServerConnection.makeRequest`
save(c, localPath, options) ==
  /\ CanCall(c)
  /\ LET call == Start("save", <<localPath, options>>)
         u == getUrl(serverSettings, <<localPath>>)
         init == [method |-> "PUT", body |-> options]
     IN Called(c, IF u.error # NoError THEN Reject(call, u.error)
                  ELSE makeRequest(call, u.url, init, serverSettings))

\* save that takes 200 alone for a success
save_response_Only200(c, status) ==
  /\ At(c, "save", "request")
  /\ Continued(c, CheckStatus(calls[c], status, {200}, AwaitJson(calls[c])))

\* Drive.save, once the response has arrived
save_response(c, status) ==
  /\ At(c, "save", "request")
  /\ Continued(c, CheckStatus(calls[c], status, {200, 201}, AwaitJson(calls[c])))

\* save with the emission moved before the validation
save_data_EmitsFirst(c, bodies) ==
  /\ At(c, "save", "json")
  /\ \E body \in bodies :
       LET call == ReadBody(calls[c], body)
           data == call.response.body
           invalid == validateContentsModel(data)
           emitted == Emit(call, [type |-> "save", oldValue |-> Null, newValue |-> data])
       IN Continued(c, IF data = NotJson THEN Reject(call, JsonSyntaxError)
                       ELSE IF invalid # NoError THEN Reject(emitted, invalid)
                       ELSE Resolve(emitted, data))

\* Drive.save, once `response.json()` has settled
save_data(c, bodies) ==
  /\ At(c, "save", "json")
  /\ \E body \in bodies :
       LET call == ReadBody(calls[c], body)
           data == call.response.body
           invalid == validateContentsModel(data)
       IN Continued(c, IF data = NotJson THEN Reject(call, JsonSyntaxError)
                       ELSE IF invalid # NoError THEN Reject(call, invalid)
                       ELSE Resolve(Emit(Validated(call), [type |-> "save", oldValue |-> Null, newValue |-> data]), data))

\* Drive.copy, up to `await ServerConnection.makeRequest`
copy(c, fromFile, toDir) ==
  /\ CanCall(c)
  /\ LET call == Start("copy", <<fromFile, toDir>>)
         u == getUrl(serverSettings, <<toDir>>)
         init == [method |-> "POST", body |-> [copy_from |-> fromFile]]
     IN Called(c, IF u.error # NoError THEN Reject(call, u.error)
                  ELSE makeRequest(call, u.url, init, serverSettings))

\* Drive.copy, once the response has arrived
copy_response(c, status) ==
  /\ At(c, "copy", "request")
  /\ Continued(c, CheckStatus(calls[c], status, {201}, AwaitJson(calls[c])))

\* copy that tags its event 'save' and leaves the model out of it
copy_data_WrongEvent(c, bodies) ==
  /\ At(c, "copy", "json")
  /\ \E body \in bodies :
       LET call == ReadBody(calls[c], body)
           data == call.response.body
           invalid == validateContentsModel(data)
       IN Continued(c, IF data = NotJson THEN Reject(call, JsonSyntaxError)
                       ELSE IF invalid # NoError THEN Reject(call, invalid)
                       ELSE Resolve(Emit(Validated(call), [type |-> "save", oldValue |-> Null, newValue |-> Null]), data))

\* Drive.copy, once `response.json()` has settled
copy_data(c, bodies) ==
  /\ At(c, "copy", "json")
  /\ \E body \in bodies :
       LET call == ReadBody(calls[c], body)
           data == call.response.body
           invalid == validateContentsModel(data)
       IN Continued(c, IF data = NotJson THEN Reject(call, JsonSyntaxError)
                       ELSE IF invalid # NoError THEN Reject(call, invalid)
                       ELSE Resolve(Emit(Validated(call), [type |-> "new", oldValue |-> Null, newValue |-> data]), data))

\* Drive.createCheckpoint, up to `await ServerConnection.makeRequest`
createCheckpoint(c, localPath) ==
  /\ CanCall(c)
  /\ LET call == Start("createCheckpoint", <<localPath>>)
         u == getUrl(serverSettings, <<localPath, <<"checkpoints">> >>)
         init == [method |-> "POST", body |-> Undefined]
     IN Called(c, IF u.error # NoError THEN Reject(call, u.error)
                  ELSE makeRequest(call, u.url, init, serverSettings))

\* Drive.createCheckpoint, once the response has arrived
createCheckpoint_response(c, status) ==
  /\ At(c, "createCheckpoint", "request")
  /\ Continued(c, CheckStatus(calls[c], status, {201}, AwaitJson(calls[c])))

\* Drive.createCheckpoint, once `response.json()` has settled
createCheckpoint_data(c, bodies) ==
  /\ At(c, "createCheckpoint", "json")
  /\ \E body \in bodies :
       LET call == ReadBody(calls[c], body)
           data == call.response.body
           invalid == validateCheckpointModel(data)
       IN Continued(c, IF data = NotJson THEN Reject(call, JsonSyntaxError)
                       ELSE IF invalid # NoError THEN Reject(call, invalid)
                       ELSE Resolve(Validated(call), data))

\* Drive.listCheckpoints, up to `await ServerConnection.makeRequest`
listCheckpoints(c, localPath) ==
  /\ CanCall(c)
  /\ LET call == Start("listCheckpoints", <<localPath>>)
         u == getUrl(serverSettings, <<localPath, <<"checkpoints">> >>)
         init == [method |-> "GET", body |-> Undefined]
     IN Called(c, IF u.error # NoError THEN Reject(call, u.error)
                  ELSE makeRequest(call, u.url, init, serverSettings))

\* Drive.listCheckpoints, once the response has arrived
listCheckpoints_response(c, status) ==
  /\ At(c, "listCheckpoints", "request")
  /\ Continued(c, CheckStatus(calls[c], status, {200}, AwaitJson(calls[c])))

\* Drive.listCheckpoints, once `response.json()` has settled
listCheckpoints_data(c, bodies) ==
  /\ At(c, "listCheckpoints", "json")
  /\ \E body \in bodies :
       LET call == ReadBody(calls[c], body)
           data == call.response.body
           invalid == validateCheckpointList(data)
       IN Continued(c, IF data = NotJson THEN Reject(call, JsonSyntaxError)
                       ELSE IF ~IsArray(data) THEN Reject(call, InvalidCheckpointList)
                       ELSE IF invalid # NoError THEN Reject(call, invalid)
                       ELSE Resolve(Validated(call), data))

\* Drive.restoreCheckpoint, up to `await ServerConnection.makeRequest`
restoreCheckpoint(c, localPath, checkpointID) ==
  /\ CanCall(c)
  /\ LET call == Start("restoreCheckpoint", <<localPath, checkpointID>>)
         u == getUrl(serverSettings, <<localPath, <<"checkpoints">>, checkpointID>>)
         init == [method |-> "POST", body |-> Undefined]
     IN Called(c, IF u.error # NoError THEN Reject(call, u.error)
                  ELSE makeRequest(call, u.url, init, serverSettings))

\* Drive.restoreCheckpoint, once the response has arrived
restoreCheckpoint_response(c, status) ==
  /\ At(c, "restoreCheckpoint", "request")
  /\ Continued(c, CheckStatus(calls[c], status, {204},
                              Resolve(StatusChecked(calls[c]), Undefined)))

\* Drive.deleteCheckpoint, up to `await ServerConnection.makeRequest`
deleteCheckpoint(c, localPath, checkpointID) ==
  /\ CanCall(c)
  /\ LET call == Start("deleteCheckpoint", <<localPath, checkpointID>>)
         u == getUrl(serverSettings, <<localPath, <<"checkpoints">>, checkpointID>>)
         init == [method |-> "DELETE", body |-> Undefined]
     IN Called(c, IF u.error # NoError THEN Reject(call, u.error)
                  ELSE makeRequest(call, u.url, init, serverSettings))

\* Drive.deleteCheckpoint, once the response has arrived
deleteCheckpoint_response(c, status) ==
  /\ At(c, "deleteCheckpoint", "request")
  /\ Continued(c, CheckStatus(calls[c], status, {204},
                              Resolve(StatusChecked(calls[c]), Undefined)))

(***************************************************************************)
(* The disposal of the drive.                                              *)
(***************************************************************************)
\* what dispose finds: the slots connected to fileChanged and the calls that
\* have not settled
Found ==
  [slots |-> {listeners[i].slot : i \in DOMAIN listeners},
   inFlight |-> {c \in Slots : calls[c].pc \in {"request", "json", "error"}}]

\* dispose that leaves the connections of fileChanged as they are
dispose_KeepsConnections ==
  /\ disposeCalls < MaxDisposeCalls
  /\ disposeCalls' = disposeCalls + 1
  /\ IF isDisposed
       THEN UNCHANGED <<isDisposed, clearDataCalls, atDisposal>>
       ELSE /\ isDisposed' = TRUE
            /\ clearDataCalls' = clearDataCalls + 1
            /\ atDisposal' = Found
  /\ UNCHANGED <<serverSettings, calls, ncalls, emitCount, okMutations, requestCount,
                 entered, listeners>>

\* dispose without its test of isDisposed
dispose_Unguarded ==
  /\ disposeCalls < MaxDisposeCalls
  /\ disposeCalls' = disposeCalls + 1
  /\ isDisposed' = TRUE
  /\ clearDataCalls' = clearDataCalls + 1
  /\ listeners' = <<>>
  /\ atDisposal' = Found
  /\ UNCHANGED <<serverSettings, calls, ncalls, emitCount, okMutations, requestCount,
                 entered>>

\* Drive.dispose: a disposed drive returns at once; otherwise the flag is set
\* and Signal.clearData(this) releases the signal
dispose ==
  /\ disposeCalls < MaxDisposeCalls
  /\ disposeCalls' = disposeCalls + 1
  /\ IF isDisposed
       THEN UNCHANGED <<isDisposed, clearDataCalls, listeners, atDisposal>>
       ELSE /\ isDisposed' = TRUE
            /\ clearDataCalls' = clearDataCalls + 1
            /\ listeners' = <<>>
            /\ atDisposal' = Found
  /\ UNCHANGED <<serverSettings, calls, ncalls, emitCount, okMutations, requestCount,
                 entered>>

(***************************************************************************)
(* The listeners of the drive: the host reads Drive.fileChanged and        *)
(* connects slots to the signal, or disconnects them.                      *)
(***************************************************************************)
IsConnected(slot) == \E i \in DOMAIN listeners : listeners[i].slot = slot

\* fileChanged.connect(slot): a connection is added behind the ones there
\* are, unless the slot is connected already
fileChanged_connect(slot) ==
  /\ ~IsConnected(slot)
  /\ listeners' = Append(listeners, [slot |-> slot, disposed |-> isDisposed])
  /\ UNCHANGED <<serverSettings, calls, ncalls, emitCount, okMutations, requestCount,
                 isDisposed, clearDataCalls, disposeCalls, entered, atDisposal>>

\* fileChanged.disconnect(slot): the connection of the slot is removed
fileChanged_disconnect(slot) ==
  /\ IsConnected(slot)
  /\ listeners' = SelectSeq(listeners, LAMBDA l : l.slot # slot)
  /\ UNCHANGED <<serverSettings, calls, ncalls, emitCount, okMutations, requestCount,
                 isDisposed, clearDataCalls, disposeCalls, entered, atDisposal>>

(***************************************************************************)
(* ServerConnection, as far as the drive relies on it.                     *)
(***************************************************************************)
\* ServerConnection.ResponseError.create(response) has settled: the error
\* built from the response is thrown
ResponseError(response) == Err("ResponseError", "", "", response.status)

ResponseError_create(c) ==
  /\ calls[c].pc = "error"
  /\ Continued(c, Reject(calls[c], ResponseError(calls[c].response)))

\* the connection fails: the promise of makeRequest is rejected, and with it
\* the call that awaits it
NetworkError == Err("NetworkError", "", "", 0)

makeRequest_fails(c) ==
  /\ calls[c].pc = "request"
  /\ Continued(c, Reject(calls[c], NetworkError))

(***************************************************************************)
(* The connect button of the file browser (index.ts): the user is prompted *)
(* for the server URL; the answer is parsed as a URL, the text of its      *)
(* query string is cut off the end of the answer, and what is left and the *)
(* parameters of the query string are stored in the settings of the drive. *)
(* An answer is null (the prompt was cancelled) or a text.                 *)
(***************************************************************************)
\* String.prototype.indexOf, counted from 1, 0 when the character is not there
IndexOf(text, ch) ==
  IF \E i \in DOMAIN text : text[i] = ch
    THEN CHOOSE i \in DOMAIN text : text[i] = ch /\ \A j \in 1..(i - 1) : text[j] # ch
    ELSE 0

\* String.prototype.slice(0, -n)
sliceEnd(text, n) == SubSeq(text, 1, Len(text) - n)

\* new URL(text) throws on a text that is no absolute URL; the URLs of the
\* model are the http ones
IsUrl(text) == Len(text) > Len(Http) /\ SubSeq(text, 1, Len(Http)) = Http

\* the query of new URL(text): what stands between the first "?" and the
\* fragment, which starts at the first "#"
UrlQuery(text) ==
  LET hash == IndexOf(text, "#")
      head == IF hash = 0 THEN text ELSE SubSeq(text, 1, hash - 1)
      mark == IndexOf(head, "?")
  IN IF mark = 0 THEN <<>> ELSE SubSeq(head, mark + 1, Len(head))

\* the URL parser percent-encodes the query: of the characters of the model,
\* the space
percentEncode(chars) ==
  Flatten([i \in DOMAIN chars |-> IF chars[i] = " " THEN <<"%", "2", "0">> ELSE <<chars[i]>>])

\* URL.search: "?" and the encoded query, or the empty string when the query
\* is empty or missing
search(text) ==
  IF UrlQuery(text) = <<>> THEN <<>> ELSE <<"?">> \o percentEncode(UrlQuery(text))

RECURSIVE Split(_, _)
Split(chars, sep) ==
  LET i == IndexOf(chars, sep)
  IN IF i = 0 THEN <<chars>>
     ELSE <<SubSeq(chars, 1, i - 1)>> \o Split(SubSeq(chars, i + 1, Len(chars)), sep)

\* URL.searchParams: the name and the value of every piece of the query
searchParams(text) ==
  LET pieces == SelectSeq(Split(UrlQuery(text), "&"), LAMBDA piece : piece # <<>>)
  IN [i \in DOMAIN pieces |->
        LET eq == IndexOf(pieces[i], "=")
        IN IF eq = 0 THEN <<pieces[i], <<>> >>
           ELSE <<SubSeq(pieces[i], 1, eq - 1), SubSeq(pieces[i], eq + 1, Len(pieces[i]))>>]

\* Object.fromEntries(parsedUrl.searchParams): the last value of a key wins
fromEntries(query) ==
  [k \in {query[i][1] : i \in DOMAIN query} |->
     query[CHOOSE i \in DOMAIN query :
             /\ query[i][1] = k
             /\ \A j \in DOMAIN query : query[j][1] = k => j <= i][2]]

\* what the user may answer: nothing (cancel), the empty text, a text that is
\* no URL, and the URL of a server, with or without a query and a fragment
Queries ==
  { <<>>, <<"?">>, <<"?", "k", "=", "v">>, <<"?", "k", "=", "v", "&", "k", "=", "w">>,
    <<"?", "k", "=", " ", "v">> }
Fragments == { <<>>, <<"#", "f">> }
AllPrompts ==
  {Null, Str(EmptyText), Str(<<"h", "1">>), Str(Server1)}
    \cup { Str(Server2 \o query \o fragment) : query \in Queries, fragment \in Fragments }
\* the answers of the calls that are not about them
Prompts == {Str(Server1), Str(Server2 \o <<"?", "k", "=", "v">>)}

\* the handler with the assignment of baseUrl alone: queryParams stay as the
\* connection before left them
connectToServer_BaseUrlOnly(serverUrl) ==
  /\ entered' = serverUrl
  /\ serverSettings' =
       IF serverUrl = Null \/ serverUrl = Str(EmptyText) THEN serverSettings
       ELSE IF ~IsUrl(serverUrl.v) THEN serverSettings
       ELSE LET queryString == search(serverUrl.v)
            IN [serverSettings EXCEPT
                  !.baseUrl = IF queryString # <<>>
                                THEN sliceEnd(serverUrl.v, Len(queryString))
                                ELSE serverUrl.v]
  /\ UNCHANGED <<calls, ncalls, emitCount, okMutations, requestCount,
                 isDisposed, clearDataCalls, disposeCalls, listeners, atDisposal>>

\* connectToServerButton.onClick, with the answer to its prompt
connectToServer(serverUrl) ==
  /\ entered' = serverUrl
  /\ serverSettings' =
       IF serverUrl = Null \/ serverUrl = Str(EmptyText) THEN serverSettings
       ELSE IF ~IsUrl(serverUrl.v) THEN serverSettings
       ELSE LET queryString == search(serverUrl.v)
                queryParams == fromEntries(searchParams(serverUrl.v))
            IN [baseUrl |-> IF queryString # <<>>
                              THEN sliceEnd(serverUrl.v, Len(queryString))
                              ELSE serverUrl.v,
                queryParams |-> queryParams]
  /\ UNCHANGED <<calls, ncalls, emitCount, okMutations, requestCount,
                 isDisposed, clearDataCalls, disposeCalls, listeners, atDisposal>>

(***************************************************************************)
(* What the remote server may answer.                                      *)
(***************************************************************************)
Statuses == {200, 201, 204, 404}

StringFields == {"name", "path", "type", "created", "last_modified"}
ObjectFields == {"mimetype", "content", "format"}
ContentFields ==
  <<"name", "path", "type", "created", "last_modified", "mimetype", "content", "format">>
FieldSet == {ContentFields[i] : i \in DOMAIN ContentFields}

\* a well-formed content model; s tells one model from another
ContentsModel(s) ==
  Obj([n \in FieldSet |-> IF n \in StringFields THEN Str(s) ELSE Null])

\* a well-formed checkpoint model
CheckpointModel(s) == Obj([n \in {"id", "last_modified"} |-> Str(s)])

\* an object without one of its properties, or with another value for it
Without(object, name) ==
  Obj([n \in DOMAIN object.props \ {name} |-> object.props[n]])
With(object, name, value) ==
  Obj([n \in DOMAIN object.props \cup {name} |->
         IF n = name THEN value ELSE object.props[n]])

\* what a response may put in the place of a property of a content model:
\* nothing, or a value of another kind
Alterations(name) ==
  IF name \in StringFields THEN {"absent", "number", "null"} ELSE {"absent", "string"}

AlteredValue(kind) ==
  CASE kind = "number" -> Num
    [] kind = "null" -> Null
    [] kind = "string" -> Str("x")
    [] OTHER -> Undefined

\* the model with the properties in DOMAIN how altered as how says
Alter(model, how) ==
  Obj([n \in DOMAIN model.props \ {m \in DOMAIN how : how[m] = "absent"} |->
         IF n \in DOMAIN how THEN AlteredValue(how[n]) ELSE model.props[n]])

\* the content models with at most maxFaults properties altered
ContentBodies(maxFaults) ==
  UNION { { Alter(ContentsModel("m1"), how) :
              how \in { h \in [names -> {"absent", "number", "null", "string"}] :
                          \A n \in names : h[n] \in Alterations(n) } } :
          names \in { ns \in SUBSET FieldSet : Cardinality(ns) <= maxFaults } }

\* what a checkpoint list may hold
CheckpointItems ==
  { CheckpointModel("k1"), CheckpointModel("k2"),
    Without(CheckpointModel("k1"), "id"),
    With(CheckpointModel("k1"), "last_modified", Num),
    Null }

CheckpointLists(maxLen) ==
  UNION { { Arr(items) : items \in [1..n -> CheckpointItems] } : n \in 0..maxLen }

\* the bodies of the responses: content models with at most one property
\* altered, checkpoints, short checkpoint lists, a string, and no JSON at all
Bodies ==
  ContentBodies(1) \cup {ContentsModel("m2")} \cup CheckpointItems
    \cup CheckpointLists(1) \cup {NotJson, Str("text")}

\* the bodies the validators are tried on: up to MaxFaults properties altered,
\* lists of up to MaxListLen checkpoints
ShapeBodies ==
  ContentBodies(MaxFaults) \cup {ContentsModel("m2")} \cup CheckpointItems
    \cup CheckpointLists(MaxListLen) \cup {NotJson, Str("text")}

CreateOptions ==
  { [path |-> Str(<<"a">>), ext |-> Undefined],
    [path |-> Undefined, ext |-> Str(<<"p", "y">>)] }

\* the extensions a caller may ask for: every string of up to MaxExtLen
\* characters, a dot, a small letter and a capital
ExtChars == {".", "p", "P"}
Exts == UNION { [1..n -> ExtChars] : n \in 0..MaxExtLen }
ExtOptions == { [path |-> Undefined, ext |-> ext] : ext \in {Undefined} \cup {Str(e) : e \in Exts} }

\* the options of get: none, or any of a type, a format and the content flag
OptionValues == {Str("notebook"), Str("file"), Str("text"), Bool(TRUE), Bool(FALSE)}
OptionsWith(names) ==
  { Obj(f) : f \in { g \in [names -> OptionValues] :
                       /\ "type" \in names => g["type"] \in {Str("notebook"), Str("file")}
                       /\ "format" \in names => g["format"] = Str("text")
                       /\ "content" \in names => g["content"].t = "boolean" } }
FetchOptions ==
  {Undefined} \cup (UNION { OptionsWith(names) : names \in SUBSET {"type", "format", "content"} })
\* the options of the calls that are not about them
NoOptions == {Undefined}

SaveOptions == { Obj([n \in {"content"} |-> Str("text")]) }

(***************************************************************************)
(* The specification: the host makes one call after the other, each is     *)
(* answered and settled, and the user may reconnect at any time, also      *)
(* while a call is in flight.                                              *)
(***************************************************************************)
Next ==
  \/ \E serverUrl \in Prompts : connectToServer(serverUrl)
  \/ \E c \in FirstSlot :
       \/ \E localPath \in Paths, options \in NoOptions : get(c, localPath, options)
       \/ \E localPath \in Paths, cookie \in Cookies : getDownloadUrl(c, localPath, cookie)
       \/ \E options \in CreateOptions : newUntitled(c, options)
       \/ \E localPath \in Paths : delete(c, localPath)
       \/ \E oldLocalPath \in Paths, newLocalPath \in Paths :
            rename(c, oldLocalPath, newLocalPath)
       \/ \E localPath \in Paths, options \in SaveOptions : save(c, localPath, options)
       \/ \E fromFile \in Paths, toDir \in Paths : copy(c, fromFile, toDir)
       \/ \E localPath \in Paths : createCheckpoint(c, localPath)
       \/ \E localPath \in Paths : listCheckpoints(c, localPath)
       \/ \E localPath \in Paths, checkpointID \in CheckpointIDs :
            restoreCheckpoint(c, localPath, checkpointID)
       \/ \E localPath \in Paths, checkpointID \in CheckpointIDs :
            deleteCheckpoint(c, localPath, checkpointID)
       \/ \E status \in Statuses :
            \/ get_response(c, status)
            \/ newUntitled_response(c, status)
            \/ delete_response(c, status)
            \/ rename_response(c, status)
            \/ save_response(c, status)
            \/ copy_response(c, status)
            \/ createCheckpoint_response(c, status)
            \/ listCheckpoints_response(c, status)
            \/ restoreCheckpoint_response(c, status)
            \/ deleteCheckpoint_response(c, status)
       \/ get_data(c, Bodies)
       \/ newUntitled_data(c, Bodies)
       \/ rename_data(c, Bodies)
       \/ save_data(c, Bodies)
       \/ copy_data(c, Bodies)
       \/ createCheckpoint_data(c, Bodies)
       \/ listCheckpoints_data(c, Bodies)
       \/ ResponseError_create(c)
       \/ makeRequest_fails(c)

Spec == Init /\ [][Next]_vars

(***************************************************************************)
(* The specification of the response validation: the methods that read a   *)
(* content model, a checkpoint and a checkpoint list, answered with every  *)
(* body of ShapeBodies.                                                    *)
(***************************************************************************)
NextShape ==
  \/ \E serverUrl \in Prompts : connectToServer(serverUrl)
  \/ \E c \in FirstSlot :
       \/ \E localPath \in Paths, options \in NoOptions : get(c, localPath, options)
       \/ \E localPath \in Paths : createCheckpoint(c, localPath)
       \/ \E localPath \in Paths : listCheckpoints(c, localPath)
       \/ \E status \in Statuses :
            \/ get_response(c, status)
            \/ createCheckpoint_response(c, status)
            \/ listCheckpoints_response(c, status)
       \/ get_data(c, ShapeBodies)
       \/ createCheckpoint_data(c, ShapeBodies)
       \/ listCheckpoints_data(c, ShapeBodies)
       \/ ResponseError_create(c)

SpecShape == Init /\ [][NextShape]_vars

(***************************************************************************)
(* The specification of the creation of files: newUntitled with every      *)
(* extension of Exts.                                                      *)
(***************************************************************************)
CreateStatuses == {201, 404}
CreateBodies == {ContentsModel("m1"), Without(ContentsModel("m1"), "name")}

NextCreate ==
  \/ \E serverUrl \in Prompts : connectToServer(serverUrl)
  \/ \E c \in FirstSlot :
       \/ \E options \in ExtOptions : newUntitled(c, options)
       \/ \E status \in CreateStatuses : newUntitled_response(c, status)
       \/ newUntitled_data(c, CreateBodies)
       \/ ResponseError_create(c)

SpecCreate == Init /\ [][NextCreate]_vars

(***************************************************************************)
(* The specification of the fetch options: get with every option of        *)
(* FetchOptions.                                                           *)
(***************************************************************************)
FetchStatuses == {200, 404}
FetchBodies == {ContentsModel("m1"), Without(ContentsModel("m1"), "name")}

NextFetch ==
  \/ \E serverUrl \in Prompts : connectToServer(serverUrl)
  \/ \E c \in FirstSlot :
       \/ \E localPath \in Paths, options \in FetchOptions : get(c, localPath, options)
       \/ \E status \in FetchStatuses : get_response(c, status)
       \/ get_data(c, FetchBodies)
       \/ ResponseError_create(c)

SpecFetch == Init /\ [][NextFetch]_vars

(***************************************************************************)
(* The specification of the connections: the user answers the prompt with  *)
(* every answer of AllPrompts, and the host reads from the server.         *)
(***************************************************************************)
NextConnect ==
  \/ \E serverUrl \in AllPrompts : connectToServer(serverUrl)
  \/ \E c \in FirstSlot :
       \/ \E localPath \in Paths, options \in NoOptions : get(c, localPath, options)
       \/ \E status \in FetchStatuses : get_response(c, status)
       \/ get_data(c, FetchBodies)
       \/ ResponseError_create(c)

SpecConnect == Init /\ [][NextConnect]_vars

(***************************************************************************)
(* The specification of the download URLs: getDownloadUrl with every       *)
(* cookie of AllCookies, before and after the user has connected.          *)
(***************************************************************************)
NextDownload ==
  \/ \E serverUrl \in Prompts : connectToServer(serverUrl)
  \/ \E c \in FirstSlot, localPath \in Paths, cookie \in AllCookies :
       getDownloadUrl(c, localPath, cookie)

SpecDownload == Init /\ [][NextDownload]_vars

(***************************************************************************)
(* The specification of overlapping calls: the host makes a call while     *)
(* others are still in flight, the responses arrive in any order, and the  *)
(* user may reconnect in between.  One read and one write, on one path,    *)
(* with few answers.                                                       *)
(***************************************************************************)
ConcurrentPaths == {<<"a">>}
ConcurrentStatuses == {200, 204}
ConcurrentBodies == {ContentsModel("m1"), Without(ContentsModel("m1"), "created")}

NextConcurrent ==
  \/ \E serverUrl \in Prompts : connectToServer(serverUrl)
  \/ \E c \in Slots :
       \/ \E localPath \in ConcurrentPaths, options \in NoOptions : get(c, localPath, options)
       \/ \E localPath \in ConcurrentPaths : delete(c, localPath)
       \/ \E status \in ConcurrentStatuses :
            \/ get_response(c, status)
            \/ delete_response(c, status)
       \/ get_data(c, ConcurrentBodies)
       \/ ResponseError_create(c)
       \/ makeRequest_fails(c)

SpecConcurrent == Init /\ [][NextConcurrent]_vars

(***************************************************************************)
(* The specification of the life of the drive: the host may dispose of it  *)
(* at any time, also while a call is in flight, and more than once.        *)
(***************************************************************************)
NextLifecycle ==
  \/ \E serverUrl \in Prompts : connectToServer(serverUrl)
  \/ dispose
  \/ \E c \in FirstSlot :
       \/ \E localPath \in ConcurrentPaths, options \in NoOptions : get(c, localPath, options)
       \/ \E localPath \in ConcurrentPaths : delete(c, localPath)
       \/ \E status \in ConcurrentStatuses :
            \/ get_response(c, status)
            \/ delete_response(c, status)
       \/ get_data(c, ConcurrentBodies)
       \/ ResponseError_create(c)

SpecLifecycle == Init /\ [][NextLifecycle]_vars

(***************************************************************************)
(* The specification of the listeners of the drive: the host connects      *)
(* slots to fileChanged and disconnects them at any time, also while a     *)
(* call is in flight, and may dispose of the drive; some slots throw.      *)
(***************************************************************************)
ListenerPrompts == {Str(Server1)}
ListenerBodies == {ContentsModel("m1"), Without(ContentsModel("m1"), "created")}

NextListeners ==
  \/ \E serverUrl \in ListenerPrompts : connectToServer(serverUrl)
  \/ \E slot \in ListenerSlots :
       \/ fileChanged_connect(slot)
       \/ fileChanged_disconnect(slot)
  \/ dispose
  \/ \E c \in FirstSlot :
       \/ \E localPath \in ConcurrentPaths : delete(c, localPath)
       \/ \E localPath \in ConcurrentPaths, options \in SaveOptions : save(c, localPath, options)
       \/ \E status \in ConcurrentStatuses :
            \/ delete_response(c, status)
            \/ save_response(c, status)
       \/ save_data(c, ListenerBodies)
       \/ ResponseError_create(c)

SpecListeners == Init /\ [][NextListeners]_vars

(***************************************************************************)
(* The properties.                                                         *)
(***************************************************************************)
ContentOps == {"get", "newUntitled", "rename", "save", "copy"}
CheckpointOps ==
  {"createCheckpoint", "listCheckpoints", "restoreCheckpoint", "deleteCheckpoint"}
NetworkOps == ContentOps \cup CheckpointOps \cup {"delete"}

\* the status each operation takes for a success
ExpectedStatus(op) ==
  CASE op \in {"get", "rename", "listCheckpoints"} -> {200}
    [] op \in {"newUntitled", "copy", "createCheckpoint"} -> {201}
    [] op \in {"delete", "restoreCheckpoint", "deleteCheckpoint"} -> {204}
    [] op = "save" -> {200, 201}
    [] OTHER -> {}

\* the response of the call has arrived
Answered(call) == call.response.status # 0
\* the body of the response has been read
BodyRead(call) == call.response.body # Undefined

\* the shape of a content model: an object with the eight properties, five
\* of them strings
WellShaped(body) ==
  /\ body.t = "object"
  /\ FieldSet \subseteq DOMAIN body.props
  /\ \A n \in StringFields : body.props[n].t = "string"

\* C1: newUntitled, rename, save and copy: when the status is the expected
\* one and the body does not have the shape of a content model, the call is
\* rejected and has emitted nothing on fileChanged.
MalformedBodyRejectedSilently ==
  \A c \in Slots :
    LET call == calls[c] IN
      ( /\ call.op \in {"newUntitled", "rename", "save", "copy"}
        /\ call.response.status \in ExpectedStatus(call.op)
        /\ BodyRead(call)
        /\ ~WellShaped(call.response.body) )
      => /\ call.pc = "rejected"
         /\ call.emitted = <<>>
         /\ call.result = Undefined

\* a save answered 201 with a content model that lacks `created` was rejected
MalformedBodyWitness ==
  \E c \in Slots :
    /\ calls[c].op = "save"
    /\ calls[c].response = [status |-> 201, body |-> Without(ContentsModel("m1"), "created")]
    /\ calls[c].pc = "rejected"

\* C2: a status other than the expected one leads to the rejection with the
\* error built from the response, with no result and no event; the expected
\* statuses, and for save both 200 and 201, never do.
BadStatusRejected ==
  \A c \in Slots :
    LET call == calls[c] IN
      (call.op \in NetworkOps /\ Answered(call))
      => IF call.response.status \in ExpectedStatus(call.op)
           THEN /\ call.pc # "error"
                /\ call.error.kind # "ResponseError"
           ELSE /\ call.pc \in {"error", "rejected"}
                /\ call.pc = "rejected" => call.error = ResponseError(call.response)
                /\ call.result = Undefined
                /\ call.emitted = <<>>
                /\ ~BodyRead(call)

\* a get answered 404 was rejected with the error of that response
BadStatusRejectedWitness ==
  \E c \in Slots :
    /\ calls[c].op = "get"
    /\ calls[c].response.status = 404
    /\ calls[c].pc = "rejected"
    /\ calls[c].error = Err("ResponseError", "", "", 404)

\* C3: a network operation called while baseUrl is empty is rejected with
\* 'Jupyter server URL not set', has made no request and has emitted nothing.
NoUrlNoRequest ==
  [][ \A c \in Slots :
        ( /\ serverSettings.baseUrl = EmptyText
          /\ ncalls' = ncalls + 1
          /\ calls'[c] # calls[c]
          /\ calls'[c].op \in NetworkOps )
        => /\ calls'[c].pc = "rejected"
           /\ calls'[c].error = UrlNotSetError
           /\ calls'[c].sent = 0
           /\ calls'[c].request = NoRequest
           /\ calls'[c].emitted = <<>>
           /\ emitCount' = emitCount ]_vars

\* a rename was rejected for the missing URL before the user connected
NoUrlWitness ==
  \E c \in Slots :
    /\ calls[c].op = "rename"
    /\ calls[c].error = UrlNotSetError
    /\ calls[c].pc = "rejected"
    /\ calls[c].sent = 0
    /\ serverSettings.baseUrl = EmptyText

\* C4: a resolved newUntitled, save or copy has emitted exactly one event,
\* tagged 'new' (newUntitled, copy) or 'save' (save), whose newValue is the
\* validated model the call returns and whose oldValue is null.
OneEventPerCreation ==
  \A c \in Slots :
    LET call == calls[c] IN
      (call.op \in {"newUntitled", "save", "copy"} /\ call.pc = "resolved")
      => /\ call.emitted =
              << [type |-> IF call.op = "save" THEN "save" ELSE "new",
                  oldValue |-> Null,
                  newValue |-> call.result] >>
         /\ WellShaped(call.result)

\* a copy has resolved with a content model
OneEventWitness ==
  \E c \in Slots :
    /\ calls[c].op = "copy"
    /\ calls[c].pc = "resolved"
    /\ calls[c].result = ContentsModel("m2")
    /\ Len(calls[c].emitted) = 1

\* C5: delete has emitted an event exactly when the answer was 204: one event
\* tagged 'delete', with the path argument as oldValue.path and no newValue.
DeleteEmitsOn204 ==
  \A c \in Slots :
    LET call == calls[c] IN
      call.op = "delete"
      => IF call.response.status = 204
           THEN call.emitted =
                  << [type |-> "delete",
                      oldValue |-> [path |-> call.args[1]],
                      newValue |-> Null] >>
           ELSE call.emitted = <<>>

\* a delete of d/b c was answered 204
DeleteWitness ==
  \E c \in Slots :
    /\ calls[c].op = "delete"
    /\ calls[c].args = << <<"d", "b c">> >>
    /\ calls[c].response.status = 204
    /\ calls[c].pc = "resolved"

\* a delete was answered 404
DeleteRefusedWitness ==
  \E c \in Slots :
    /\ calls[c].op = "delete"
    /\ calls[c].response.status = 404
    /\ calls[c].pc = "rejected"

\* C6: as many events have been emitted as mutating calls have resolved, and
\* get, getDownloadUrl and the checkpoint methods have emitted none.
EventsCountMutations ==
  /\ emitCount = okMutations
  /\ \A c \in Slots :
       calls[c].op \notin MutatingOps => calls[c].emitted = <<>>

\* two mutating calls have resolved, and then a read
EventsCountWitness ==
  /\ emitCount = 2
  /\ ncalls = 3
  /\ \E c \in Slots : calls[c].op = "get" /\ calls[c].pc = "resolved"

ReturnedModelIsValidBody ==
  \A c \in Slots :
    LET call == calls[c] IN
      (call.op \in ContentOps /\ call.pc = "resolved")
      => /\ call.result = call.response.body
         /\ WellShaped(call.result)

\* a get has returned the model the server sent
ReturnedModelWitness ==
  \E c \in Slots :
    /\ calls[c].op = "get"
    /\ calls[c].pc = "resolved"
    /\ calls[c].response.body = ContentsModel("m2")
    /\ calls[c].result = ContentsModel("m2")

\* a property the content model must have and the body lacks, or has with a
\* value of another type than the one asked for
BadField(body, name) ==
  \/ body.t # "object"
  \/ name \notin DOMAIN body.props
  \/ name \in StringFields /\ body.props[name].t # "string"

\* the first such property in the order of the checks
FirstBadField(body) ==
  ContentFields[CHOOSE i \in DOMAIN ContentFields :
                  /\ BadField(body, ContentFields[i])
                  /\ \A j \in 1..(i - 1) : ~BadField(body, ContentFields[j])]

\* C9: a content-model body of the expected status that violates the shape
\* makes the call fail with an error that names the first property, in the
\* order name, path, type, created, last_modified, mimetype, content,
\* format, that is missing or of the wrong type.
ShapeErrorNamesFirstField ==
  \A c \in Slots :
    LET call == calls[c] IN
      ( /\ call.op \in ContentOps
        /\ call.response.status \in ExpectedStatus(call.op)
        /\ BodyRead(call)
        /\ call.response.body # NotJson
        /\ ~WellShaped(call.response.body) )
      => /\ call.pc = "rejected"
         /\ call.error.kind \in {"Missing property", "Property is not of type"}
         /\ call.error.prop = FirstBadField(call.response.body)

\* the same, for every body but null, which no property can be read of
ShapeErrorNamesFirstFieldUnlessNull ==
  \A c \in Slots :
    LET call == calls[c] IN
      ( /\ call.op \in ContentOps
        /\ call.response.status \in ExpectedStatus(call.op)
        /\ BodyRead(call)
        /\ call.response.body # NotJson
        /\ ~WellShaped(call.response.body) )
      => /\ call.pc = "rejected"
         /\ IF call.response.body = Null
              THEN call.error = NullTypeError
              ELSE /\ call.error.kind \in {"Missing property", "Property is not of type"}
                   /\ call.error.prop = FirstBadField(call.response.body)

\* the shape of a checkpoint model
WellFormedCheckpoint(item) ==
  /\ item.t = "object"
  /\ {"id", "last_modified"} \subseteq DOMAIN item.props
  /\ item.props["id"].t = "string"
  /\ item.props["last_modified"].t = "string"

\* C10: listCheckpoints answered 200: a JSON body that is no array is
\* rejected with 'Invalid Checkpoint list'; an array with an item that is no
\* checkpoint is rejected as a whole, with another error than that one; an
\* array of checkpoints is returned as it came.
CheckpointListValidated ==
  \A c \in Slots :
    LET call == calls[c]
        data == call.response.body
    IN ( /\ call.op = "listCheckpoints"
         /\ call.response.status = 200
         /\ BodyRead(call)
         /\ data # NotJson )
       => IF data.t # "array"
            THEN call.pc = "rejected" /\ call.error = InvalidCheckpointList
          ELSE IF \E i \in DOMAIN data.items : ~WellFormedCheckpoint(data.items[i])
            THEN /\ call.pc = "rejected"
                 /\ call.result = Undefined
                 /\ call.error \notin {NoError, InvalidCheckpointList}
          ELSE /\ call.pc = "resolved"
               /\ call.result = data

\* two checkpoints have been returned in the order of the response
CheckpointListWitness ==
  \E c \in Slots :
    /\ calls[c].op = "listCheckpoints"
    /\ calls[c].pc = "resolved"
    /\ calls[c].result = Arr(<<CheckpointModel("k2"), CheckpointModel("k1")>>)

\* a list whose second item has no id has been rejected as a whole
CheckpointListRejectedWitness ==
  \E c \in Slots :
    /\ calls[c].op = "listCheckpoints"
    /\ calls[c].response.body =
         Arr(<<CheckpointModel("k2"), Without(CheckpointModel("k1"), "id")>>)
    /\ calls[c].pc = "rejected"
    /\ calls[c].error = MissingProperty("id")

InFlight == {"request", "json", "error"}
Settled == {"idle", "resolved", "rejected", "thrown"}

(***************************************************************************)
(* C11: a network operation targets the baseUrl that serverSettings holds  *)
(* in the step that invokes it, whatever calls are still in flight; and    *)
(* the target of a request in flight never changes, whatever happens to    *)
(* serverSettings in the meantime.                                         *)
(***************************************************************************)
TargetIsBaseUrlAtInvocation ==
  [][\A c \in Slots :
       /\ (calls[c].pc \in Settled /\ calls'[c].pc = "request")
            => calls'[c].request.url.base = serverSettings.baseUrl
       /\ calls[c].pc \in InFlight
            => calls'[c].request.url = calls[c].request.url]_vars

\* two requests in flight, the first made before the user reconnected and the
\* second after
TargetAcrossReconnectWitness ==
  \E c1 \in Slots, c2 \in Slots :
    /\ calls[c1].pc = "request"
    /\ calls[c2].pc = "request"
    /\ calls[c1].request.url.base # serverSettings.baseUrl
    /\ calls[c2].request.url.base = serverSettings.baseUrl

\* the letters of an extension, in their order
Letters(chars) == SelectSeq(chars, LAMBDA ch : ch # ".")

XsrfCookie(cookie) ==
  IF \E i \in DOMAIN cookie : cookie[i][1] = "_xsrf"
    THEN Str(cookie[CHOOSE i \in DOMAIN cookie : cookie[i][1] = "_xsrf"][2])
    ELSE Null

\* what a call of getDownloadUrl made in this step must have done, given the
\* token to append, or null
DownloadUrlIs(call, token) ==
  /\ call.pc = "resolved"
  /\ call.sent = 0 /\ requestCount' = requestCount
  /\ call.emitted = <<>> /\ emitCount' = emitCount
  /\ call.result.base = serverSettings.baseUrl
  /\ call.result.path =
       <<"files">> \o [i \in DOMAIN call.args[1] |-> encodeURIComponent(call.args[1][i])]
  /\ call.result.search = IF token = Null THEN <<>> ELSE << <<"_xsrf", token.v>> >>

(***************************************************************************)
(* C13: getDownloadUrl makes no request and emits no event, and resolves   *)
(* to the URL made of the base URL, "files" and the percent-encoded        *)
(* segments of the path, with the value of the _xsrf cookie as the query   *)
(* parameter _xsrf when there is such a cookie, and without a query        *)
(* otherwise.                                                              *)
(***************************************************************************)
DownloadUrlCarriesXsrfCookie ==
  [][\A c \in Slots :
       (calls'[c] # calls[c] /\ calls'[c].op = "getDownloadUrl")
         => DownloadUrlIs(calls'[c], XsrfCookie(calls'[c].args[2]))]_vars

\* What holds instead: once the base URL is set, the URL is as described with
\* the part of the cookie that the regular expression matches.
DownloadUrlCarriesMatchedToken ==
  [][\A c \in Slots :
       (calls'[c] # calls[c] /\ calls'[c].op = "getDownloadUrl"
          /\ serverSettings.baseUrl # EmptyText)
         => DownloadUrlIs(calls'[c], xsrfTokenMatch(calls'[c].args[2]))]_vars

\* the query parameters get has passed on with its request
Forwarded(call) == call.request.params

(***************************************************************************)
(* C14: a get of type 'notebook' forwards no 'format' parameter; a get of  *)
(* any other type, or of none, forwards the format it was given, as given. *)
(***************************************************************************)
NotebookFormatDropped ==
  \A c \in Slots :
    (calls[c].op = "get" /\ calls[c].sent = 1 /\ calls[c].args[2] # Undefined) =>
      LET options == calls[c].args[2]
      IN IF Option(options, "type") = Str("notebook")
           THEN "format" \notin DOMAIN Forwarded(calls[c])
           ELSE "format" \in DOMAIN options.props
                  => /\ "format" \in DOMAIN Forwarded(calls[c])
                     /\ Forwarded(calls[c])["format"] = options.props["format"]

\* a notebook asked for with a format was fetched without it, and a file asked
\* for with a format was fetched with it
NotebookFormatWitness ==
  \E c \in Slots :
    /\ calls[c].op = "get"
    /\ calls[c].pc = "resolved"
    /\ calls[c].args[2] # Undefined
    /\ Option(calls[c].args[2], "type") = Str("notebook")
    /\ Option(calls[c].args[2], "format") = Str("text")
    /\ "format" \notin DOMAIN Forwarded(calls[c])

(***************************************************************************)
(* C15: a get with options forwards 'content' as the string '1' when the   *)
(* content option is truthy and as the string '0' when it is falsy or      *)
(* absent; a get without options forwards no parameter at all.             *)
(***************************************************************************)
ContentFlagForwarded ==
  \A c \in Slots :
    (calls[c].op = "get" /\ calls[c].sent = 1) =>
      LET options == calls[c].args[2]
      IN IF options = Undefined
           THEN DOMAIN Forwarded(calls[c]) = {}
           ELSE /\ "content" \in DOMAIN Forwarded(calls[c])
                /\ Forwarded(calls[c])["content"] =
                     (IF "content" \in DOMAIN options.props
                           /\ options.props["content"] = Bool(TRUE)
                        THEN Str("1") ELSE Str("0"))

\* a get whose options have no content flag has forwarded content '0'
ContentFlagWitness ==
  \E c \in Slots :
    /\ calls[c].op = "get"
    /\ calls[c].pc = "resolved"
    /\ calls[c].args[2] # Undefined
    /\ "content" \notin DOMAIN calls[c].args[2].props
    /\ Forwarded(calls[c])["content"] = Str("0")

(***************************************************************************)
(* C16: isDisposed is false until dispose() is called for the first time   *)
(* and true ever after; the first call releases the signal, and a later    *)
(* call changes nothing: the flag stays and the signal is not released     *)
(* again.                                                                  *)
(***************************************************************************)
DisposedOnceForGood ==
  /\ [](isDisposed <=> disposeCalls > 0)
  /\ [](clearDataCalls = IF disposeCalls > 0 THEN 1 ELSE 0)
  /\ [][isDisposed =>
          /\ isDisposed'
          /\ clearDataCalls' = clearDataCalls
          /\ disposeCalls' # disposeCalls
               => UNCHANGED <<serverSettings, calls, ncalls, emitCount, okMutations,
                              requestCount>>]_vars

\* dispose() was called twice, the second time while a request was in flight
DisposedTwiceWitness ==
  /\ disposeCalls = 2
  /\ isDisposed
  /\ clearDataCalls = 1
  /\ \E c \in Slots : calls[c].pc = "request"

\* an entered URL without its query string: what stands before the "?" and
\* the fragment, if there is one
WithoutQueryString(text) ==
  LET hash == IndexOf(text, "#")
      head == IF hash = 0 THEN text ELSE SubSeq(text, 1, hash - 1)
      mark == IndexOf(head, "?")
  IN IF mark = 0 THEN text
     ELSE SubSeq(text, 1, mark - 1)
            \o (IF hash = 0 THEN <<>> ELSE SubSeq(text, hash, Len(text)))

\* the key/value pairs of the query string of an entered URL, and those the
\* settings hold
PairsOf(text) == {searchParams(text)[i] : i \in DOMAIN searchParams(text)}
PairsIn(params) == {<<k, params[k]>> : k \in DOMAIN params}

\* what an answer to the prompt must have done to the settings
Connected(answer, before, after) ==
  IF answer = Null \/ answer = Str(EmptyText)
    THEN after = before
    ELSE (IsUrl(answer.v) /\ UrlQuery(answer.v) # <<>>) =>
           /\ after.baseUrl = WithoutQueryString(answer.v)
           /\ PairsIn(after.queryParams) = PairsOf(answer.v)

(***************************************************************************)
(* C17: when the user enters a URL with a query string, baseUrl becomes    *)
(* the entered URL without the query string and queryParams the key/value  *)
(* pairs of the query string, whatever they were before; when the user     *)
(* cancels the prompt or enters nothing, both stay as they are.            *)
(***************************************************************************)
ConnectSplitsQueryString ==
  [][entered' # entered => Connected(entered', serverSettings, serverSettings')]_vars

\* What holds instead: the same for the URLs that end with their query
\* string, whose query string the URL parser leaves as it was typed, and
\* that name no key twice.
ConnectSplitsPlainQueryString ==
  [][(/\ entered' # entered
      /\ entered'.t = "string"
      /\ IndexOf(entered'.v, "#") = 0
      /\ percentEncode(UrlQuery(entered'.v)) = UrlQuery(entered'.v)
      /\ Cardinality(PairsOf(entered'.v))
           = Cardinality({pair[1] : pair \in PairsOf(entered'.v)}))
       => Connected(entered', serverSettings, serverSettings')]_vars

(***************************************************************************)
(* C18: the request of a rename is a PATCH to the old path whose body      *)
(* carries the new path as 'path'; a rename answered 200 with a content    *)
(* model emits one event, of type 'rename', whose oldValue holds the old   *)
(* path and whose newValue is the model of the response, which the call    *)
(* returns.                                                                *)
(***************************************************************************)
RenameAnnounced ==
  \A c \in Slots :
    LET call == calls[c] IN
      (call.op = "rename" /\ call.sent = 1) =>
        /\ call.request.method = "PATCH"
        /\ call.request.url.path = <<SERVICE_DRIVE_URL>> \o encodeParts(call.args[1])
        /\ call.request.body = [path |-> call.args[2]]
        /\ (call.response.status = 200 /\ BodyRead(call) /\ WellShaped(call.response.body))
             => /\ call.pc = "resolved"
                /\ call.result = call.response.body
                /\ call.emitted = << [type |-> "rename",
                                      oldValue |-> [path |-> call.args[1]],
                                      newValue |-> call.response.body] >>

\* a was renamed to d/b c
RenameAnnouncedWitness ==
  \E c \in Slots :
    /\ calls[c].op = "rename"
    /\ calls[c].args = << <<"a">>, <<"d", "b c">> >>
    /\ calls[c].pc = "resolved"
    /\ Len(calls[c].emitted) = 1
    /\ calls[c].emitted[1].oldValue = [path |-> <<"a">>]

\* slot c takes a new call in this step
Invoked(c) == calls[c].pc \in Settled /\ calls'[c] # calls[c]

\* what a settled call has come to
Outcome(call) ==
  [pc |-> call.pc, result |-> call.result, error |-> call.error, emitted |-> call.emitted]

(***************************************************************************)
(* C19: a network operation invoked while the base URL is set makes one    *)
(* HTTP request in the step that invokes it, whatever calls are in flight, *)
(* and no step after that makes another for it: the requests made are as   *)
(* many as the calls that passed the test of the base URL.  Two calls of   *)
(* the same operation with the same arguments have a request each, and two *)
(* such calls that got the same response have come to the same outcome.    *)
(***************************************************************************)
OneRequestPerCall ==
  /\ [][LET passed == {c \in Slots : Invoked(c) /\ serverSettings.baseUrl # EmptyText}
        IN /\ \A c \in passed : calls'[c].sent = 1 /\ calls'[c].pc = "request"
           /\ \A c \in Slots : ~Invoked(c) => calls'[c].sent = calls[c].sent
           /\ requestCount' = requestCount + Cardinality(passed)]_vars
  /\ [](\A c1 \in Slots, c2 \in Slots :
          ( /\ calls[c1].pc \in Settled \ {"idle"}
            /\ calls[c2].pc \in Settled \ {"idle"}
            /\ calls[c1].op = calls[c2].op
            /\ calls[c1].args = calls[c2].args
            /\ calls[c1].sent = calls[c2].sent
            /\ calls[c1].response = calls[c2].response )
            => Outcome(calls[c1]) = Outcome(calls[c2]))

\* two calls of get with the same argument were in flight together, each with
\* its request; one has resolved and the other is still waiting
TwoRequestsWitness ==
  \E c1 \in Slots, c2 \in Slots :
    /\ calls[c1].op = "get" /\ calls[c2].op = "get"
    /\ calls[c1].args = calls[c2].args
    /\ calls[c1].request = calls[c2].request
    /\ calls[c1].pc = "resolved"
    /\ calls[c2].pc = "request"
    /\ requestCount = 2
    /\ ncalls = 2

\* the steps of a successful mutating operation, as the flow of control
\* names them
OrderedSteps ==
  <<"request sent", "response received", "status checked", "body validated",
    "event delivered", "result returned">>
\* those of them a call has taken, in the order it took them
StepsTaken(call) ==
  SelectSeq(call.steps, LAMBDA step : step \in {OrderedSteps[i] : i \in DOMAIN OrderedSteps})
\* the same without the validation of a body
StepsWithoutBody == SelectSeq(OrderedSteps, LAMBDA step : step # "body validated")

(***************************************************************************)
(* C20, as stated: a resolved newUntitled, delete, rename, save or copy    *)
(* has sent its request, received the response, checked the status,        *)
(* validated the body, delivered the event and returned, in this order.    *)
(***************************************************************************)
MutationTakesAllSteps ==
  \A c \in Slots :
    (calls[c].op \in MutatingOps /\ calls[c].pc = "resolved")
      => StepsTaken(calls[c]) = OrderedSteps

(***************************************************************************)
(* C20, amended: a resolved newUntitled, rename, save or copy has sent its *)
(* request, received the response, checked the status, validated the body, *)
(* delivered the event and returned, in this order; a resolved delete,     *)
(* whose response has no body, has taken the same steps but the            *)
(* validation.  No call has delivered an event before its response         *)
(* arrived, and none has returned before it delivered its event.           *)
(***************************************************************************)
MutationStepsInOrder ==
  \A c \in Slots :
    LET call == calls[c] IN
      call.op \in MutatingOps =>
        /\ call.pc = "resolved"
             => StepsTaken(call) = IF call.op = "delete" THEN StepsWithoutBody
                                   ELSE OrderedSteps
        /\ \A i \in DOMAIN call.steps :
             /\ call.steps[i] = "event delivered"
                  => \E j \in 1..(i - 1) : call.steps[j] = "response received"
             /\ call.steps[i] = "result returned"
                  => \E j \in 1..(i - 1) : call.steps[j] = "event delivered"

\* a delete has gone through its steps, after another mutation has
MutationStepsWitness ==
  /\ \E c \in Slots :
       /\ calls[c].op = "delete"
       /\ calls[c].pc = "resolved"
       /\ StepsTaken(calls[c]) = StepsWithoutBody
  /\ okMutations = 2
  /\ emitCount = 2

\* the events the call in slot c has emitted in the step, and what the slots
\* of the listeners have received of them in the step
EmittedInStep(c) ==
  SubSeq(calls'[c].emitted, Len(calls[c].emitted) + 1, Len(calls'[c].emitted))
DeliveredInStep(c) ==
  SubSeq(calls'[c].delivered, Len(calls[c].delivered) + 1, Len(calls'[c].delivered))
Continues(c) == calls[c].pc \in {"request", "json"} /\ calls'[c].op = calls[c].op

(***************************************************************************)
(* C21: when a mutating call emits its change event, the slot of every     *)
(* listener connected at that moment receives the event, once, in the      *)
(* order in which the listeners were connected, whether or not a slot      *)
(* before it throws; and the call resolves, it is not rejected with what   *)
(* a slot threw.                                                           *)
(***************************************************************************)
DeliveredToAllInOrder ==
  [][\A c \in Slots :
       (Continues(c) /\ calls[c].op \in MutatingOps /\ EmittedInStep(c) # <<>>) =>
         /\ Len(EmittedInStep(c)) = 1
         /\ DeliveredInStep(c) =
              [i \in DOMAIN listeners |->
                 [slot |-> listeners[i].slot, args |-> EmittedInStep(c)[1]]]
         /\ calls'[c].pc = "resolved"
         /\ calls'[c].error = NoError]_vars

\* a save has resolved after the slots l2 and l1 received its event in this
\* order, the order of their connections, and l2 throws
DeliveredPastThrowWitness ==
  \E c \in Slots :
    /\ calls[c].op = "save" /\ calls[c].pc = "resolved"
    /\ "l2" \in ThrowingSlots
    /\ [i \in DOMAIN calls[c].delivered |-> calls[c].delivered[i].slot] = <<"l2", "l1">>
    /\ \A i \in DOMAIN calls[c].delivered :
         calls[c].delivered[i].args = [type |-> "save", oldValue |-> Null, newValue |-> calls[c].result]

\* the call in slot c was in flight when dispose() disposed of the drive
InFlightAtDisposal(c) == isDisposed /\ c \in atDisposal.inFlight /\ ~calls[c].disposed

(***************************************************************************)
(* C22: once the drive is disposed of, an event is delivered only through  *)
(* connections made after the disposal, never to a listener through the    *)
(* connection it had before, also when the event is the one of a mutating  *)
(* call that was in flight at the disposal and succeeds after it.          *)
(* dispose() touches no call: a call in flight at the disposal settles as  *)
(* its response tells, resolved with its event emitted when the status and *)
(* the body are good, rejected otherwise.                                  *)
(***************************************************************************)
NoDeliveryAfterDispose ==
  /\ [][\A c \in Slots :
          isDisposed =>
            \A i \in DOMAIN DeliveredInStep(c) :
              \E j \in DOMAIN listeners :
                /\ listeners[j].slot = DeliveredInStep(c)[i].slot
                /\ listeners[j].disposed]_vars
  /\ [][isDisposed' # isDisposed => calls' = calls]_vars
  /\ [](\A c \in Slots :
          (InFlightAtDisposal(c) /\ calls[c].pc \in Settled /\ calls[c].op \in MutatingOps) =>
            /\ Answered(calls[c])
            /\ calls[c].pc \in {"resolved", "rejected"}
            /\ calls[c].pc = "resolved" <=>
                 /\ calls[c].response.status \in ExpectedStatus(calls[c].op)
                 /\ calls[c].op = "delete" \/ WellShaped(calls[c].response.body)
            /\ calls[c].pc = "resolved" <=> Len(calls[c].emitted) = 1)

\* dispose() released the connections of l1 and l2 while a save was in
\* flight; the save has resolved since and emitted its event, which went to
\* no slot
DisposedInFlightWitness ==
  \E c \in Slots :
    /\ InFlightAtDisposal(c)
    /\ atDisposal.slots = {"l1", "l2"}
    /\ calls[c].op = "save" /\ calls[c].pc = "resolved"
    /\ Len(calls[c].emitted) = 1
    /\ calls[c].delivered = <<>>

\* the base URL and the query parameters are those of one answer to the prompt
OfOneConnection(baseUrl, queryParams) ==
  \E answer \in Prompts :
    /\ baseUrl = WithoutQueryString(answer.v)
    /\ PairsIn(queryParams) = PairsOf(answer.v)

\* the call in slot c has made a request
HasRequest(c) == calls[c].sent > 0

(***************************************************************************)
(* C23: however reconnections and calls interleave, the base URL in the    *)
(* target of a request and the query parameters sent with it are those of  *)
(* one and the same connection.  The settings hold the base URL and the    *)
(* query parameters of one answer to the prompt at every moment; a call    *)
(* takes both for its request in the step that invokes it, and no later    *)
(* step changes either of them in the request.                             *)
(***************************************************************************)
TokenGoesToItsServer ==
  /\ [](\A c \in Slots :
          HasRequest(c) =>
            OfOneConnection(calls[c].request.url.base, calls[c].request.queryParams))
  /\ [](serverSettings = makeSettings
          \/ OfOneConnection(serverSettings.baseUrl, serverSettings.queryParams))
  /\ [][\A c \in Slots :
          /\ (calls[c].pc \in Settled /\ calls'[c].pc = "request") =>
               /\ calls'[c].request.url.base = serverSettings.baseUrl
               /\ calls'[c].request.queryParams = serverSettings.queryParams
          /\ calls[c].pc \in InFlight =>
               /\ calls'[c].request.url.base = calls[c].request.url.base
               /\ calls'[c].request.queryParams = calls[c].request.queryParams]_vars

\* a request to the first server, without a token, and a request to the
\* second server, with the token entered for it, are in flight together: the
\* user reconnected between the two calls
TokenAcrossReconnectWitness ==
  \E c1 \in Slots, c2 \in Slots :
    /\ calls[c1].pc = "request" /\ calls[c2].pc = "request"
    /\ calls[c1].request.url.base = Server1
    /\ calls[c1].request.queryParams = NoParams
    /\ calls[c2].request.url.base = Server2
    /\ PairsIn(calls[c2].request.queryParams) = {<< <<"k">>, <<"v">> >>}
    /\ serverSettings.baseUrl = Server2

(***************************************************************************)
(* C24: the extension newUntitled sends is the extension it was given with *)
(* a leading dot added if there was none and with its letters converted to *)
(* lower case.                                                             *)
(***************************************************************************)
ExtensionLowerCased ==
  \A c \in Slots :
    (calls[c].op = "newUntitled" /\ calls[c].sent = 1 /\ calls[c].args[1].ext.t = "string") =>
      LET given == calls[c].args[1].ext.v
          sent == calls[c].request.body.ext
      IN /\ sent.t = "string"
         /\ sent.v = (IF given # <<>> /\ Head(given) # "." THEN <<".">> ELSE <<>>)
                        \o toLowerCase(given)
====
